---- MODULE Spec2Model ----
(***************************************************************************)
(* Model of the hand-written migrations of risky_migrations:               *)
(*   proj04_safe_backfill  0003_backfill_created_at_new  (batched UPDATE)  *)
(*   proj07_safe_backfill  0002_add_fk_not_valid, 0003_validate_fk         *)
(* run forwards and backwards by `manage.py migrate` against PostgreSQL,   *)
(* of proj04's command seed_large_table and of proj07's view update_order. *)
(* A behaviour is about one project; which one is fixed in the initial     *)
(* state.                                                                  *)
(***************************************************************************)
EXTENDS Integers, Sequences, FiniteSets, TLC

VARIABLES
    proj,             \* the project whose database this is
    status,           \* of the migrate command: idle, running, failed, interrupted, done,
                      \* and reverting, reverted for migrate demoapp 0001
    run,              \* how many times migrate has been invoked
    applied,          \* django_migrations: the migrations recorded as applied
    cur,              \* the migration being applied, or NoMigration
    op,               \* index of the next operation of cur
    has_col,          \* large_record / small_record have the column created_at_new
    large_record,     \* id -> row, as the migration's connection sees it
    small_record,     \* id -> row
    locked,           \* ids of large_record rows write-locked by the open transaction
    committed,        \* the database state other connections see (last commit)
    scan,             \* row order of an unordered SELECT ... LIMIT: "any" or "id"
    fk,               \* table -> state of its customer_id foreign key
    small_order,      \* id -> customer_id
    large_order,      \* id -> customer_id
    bpc,              \* position inside backfill_created_at_new
    batch_size,
    total_backfilled,
    batch_num,
    updated,          \* cursor.rowcount of the last UPDATE
    stdout,           \* what this run of migrate has printed
    rowcounts,        \* history: rowcount of every non-empty batch of this run
    totals,           \* history: total_backfilled after every non-empty batch
    err_seen,         \* history: an operation of this run raised
    crash_at,         \* history: the batch counts at which the loop was interrupted
    crash_sizes,      \* history: the batch sizes of the interrupted loops
    seen_nulls,       \* history: rows that matched at the previous UPDATE of this run, or -1
    start_nulls,      \* history: rows with created_at_new NULL when the loop began, or -1
    inserts,          \* how many statements concurrent writers ran
    reverts,          \* how many times migrate demoapp 0001 has been invoked
    unwound,          \* history: migrate demoapp 0001 unapplied the plan after it was
                      \* fully applied
    first_apply,      \* history: the database when the plan first completed, or NULL
    seed,             \* seed_large_table: its arguments, its locals and its position
    raced,            \* the row whose created_at_new another connection set last, with
                      \* the run and the batch count of the loop at that moment; or NULL
    total_amount,     \* total_amount of the first LargeOrder, in units of 1.00
    requests,         \* update_order request -> its position, its order object, its response
    initial_amount    \* history: total_amount before any request

vars == <<proj, status, run, applied, cur, op, has_col, large_record, small_record,
          locked, committed, scan, fk, small_order, large_order, bpc, batch_size,
          total_backfilled, batch_num, updated, stdout, rowcounts, totals, err_seen,
          crash_at, crash_sizes, seen_nulls, start_nulls, inserts, reverts, unwound,
          first_apply, seed, raced, total_amount, requests, initial_amount>>

----------------------------------------------------------------------------
(* Bounds of the model *)

MaxRows == 3
MaxSmallRows == 1
MaxBatch == 2
MaxOrders == 1
MaxRuns == 2
MaxInserts == 2
MaxReverts == 1
MaxSeedCount == 3
MaxSeedBatch == 2
MaxSeedRuns == 2
MaxRequests == 2

----------------------------------------------------------------------------
(* Values *)

NULL == <<>>

\* A timestamp: day of January 2024 and hour.
Timestamp(d, h) == <<d, h>>

\* created_at is a CharField: "full" is 'YYYY-MM-DD HH:MM:SS' (at 10:00:00, as
\* seeded), "date" is 'YYYY-MM-DD', "bad" is text that is no date at all.
Str(f, d) == [fmt |-> f, day |-> d]

StrDomain == {Str("full", 1), Str("date", 2), Str("bad", 0)}

\* seed_large_table: created_at of LargeRecord i.
SeedCreatedAt(i) == Str("full", (i % 28) + 1)

\* PostgreSQL's created_at::timestamp: accepts both date formats, a date alone
\* is midnight; anything else is an error.
CastTimestamp(s) ==
    IF s.fmt = "full" THEN [ok |-> TRUE, val |-> Timestamp(s.day, 10)]
    ELSE IF s.fmt = "date" THEN [ok |-> TRUE, val |-> Timestamp(s.day, 0)]
    ELSE [ok |-> FALSE, val |-> NULL]

\* datetime.strptime(s, '%Y-%m-%d %H:%M:%S') then make_aware: only the full
\* format parses; anything else raises ValueError.
Strptime(s) ==
    IF s.fmt = "full" THEN [ok |-> TRUE, val |-> Timestamp(s.day, 10)]
    ELSE [ok |-> FALSE, val |-> NULL]

Row(n, s) == [name |-> n, created_at |-> s, created_at_new |-> NULL]

----------------------------------------------------------------------------
(* The migrations *)

NoMigration == "none"

P4AddColumn == "0002_largerecord_created_at_new_and_more"
P4Backfill == "0003_backfill_created_at_new"
P7AddFk == "0002_add_fk_not_valid"
P7Validate == "0003_validate_fk"
Initial == "0001_initial"

Migrations(p) ==
    IF p = "proj04" THEN {P4AddColumn, P4Backfill} ELSE {P7AddFk, P7Validate}

\* Every migration depending on 0001_initial alone.
DependenciesInitialOnly(m) == {Initial}

Dependencies(m) ==
    IF m = P4Backfill THEN {P4AddColumn}
    ELSE IF m = P7Validate THEN {P7AddFk}
    ELSE {Initial}

Operations(m) ==
    IF m = P4AddColumn THEN <<"add_column">>
    ELSE IF m = P4Backfill THEN <<"backfill">>
    ELSE IF m = P7AddFk THEN
        <<"log_smallorder_start", "add_fk_small", "log_smallorder_end",
          "log_largeorder_start", "add_fk_large", "log_largeorder_end">>
    ELSE IF m = P7Validate THEN
        <<"log_smallorder_validate_start", "validate_small", "log_smallorder_validate_end",
          "log_largeorder_validate_start", "validate_large", "log_largeorder_validate_end">>
    ELSE << >>

\* Neither 0003_backfill_created_at_new nor the foreign-key migrations set
\* atomic = False, so each runs inside one transaction.
Atomic(m) == TRUE

CurOp == IF cur # NoMigration /\ op <= Len(Operations(cur)) THEN Operations(cur)[op] ELSE "none"

----------------------------------------------------------------------------
(* Database state and transactions *)

View == [has_col |-> has_col, large_record |-> large_record,
         small_record |-> small_record, fk |-> fk]

\* What the other connections see after a statement of migration m that left the
\* migration's connection seeing v: nothing new inside a transaction.
AfterStatement(m, v) == IF Atomic(m) THEN committed ELSE v

\* The row locks held after a statement of migration m wrote the rows ids.
LocksAfter(m, ids) == IF Atomic(m) THEN locked \cup ids ELSE {}

NullIds(table) == {id \in DOMAIN table : table[id].created_at_new = NULL}

Min(a, b) == IF a < b THEN a ELSE b

\* LIMIT one row too many.
LimitOffByOne(b) == b + 1

\* LIMIT %s with [batch_size]
Limit(b) == b

\* The subquery without its WHERE created_at_new IS NULL.
SelectBatchNoPredicate(table, b, order) ==
    LET n == Min(Limit(b), Cardinality(DOMAIN table))
    IN  IF order = "id"
        THEN {{id \in DOMAIN table : Cardinality({j \in DOMAIN table : j < id}) < n}}
        ELSE {S \in SUBSET DOMAIN table : Cardinality(S) = n}

\* SELECT id FROM large_record WHERE created_at_new IS NULL LIMIT b: the sets of
\* ids the subquery may return.  Without ORDER BY any b of the matching rows may
\* come back ("any"); a sequential scan of a freshly seeded table returns them
\* in id order ("id").
SelectBatch(table, b, order) ==
    LET nulls == NullIds(table)
        n == Min(Limit(b), Cardinality(nulls))
    IN  IF order = "id"
        THEN {{id \in nulls : Cardinality({j \in nulls : j < id}) < n}}
        ELSE {S \in SUBSET nulls : Cardinality(S) = n}

\* The statement raises when the cast of a selected row fails.
CastFails(table, sel) == \E id \in sel : ~CastTimestamp(table[id].created_at).ok

\* SET created_at_new to one value for the whole batch (an uncorrelated
\* subquery) instead of each row's own created_at.
UpdateRowsSharedValue(table, sel) ==
    [id \in DOMAIN table |->
        IF id \in sel
        THEN LET first == CHOOSE i \in sel : \A j \in sel : i <= j
             IN  [table[id] EXCEPT
                     !.created_at_new = CastTimestamp(table[first].created_at).val]
        ELSE table[id]]

\* UPDATE large_record SET created_at_new = created_at::timestamp WHERE id IN sel
UpdateRows(table, sel) ==
    [id \in DOMAIN table |->
        IF id \in sel
        THEN [table[id] EXCEPT !.created_at_new = CastTimestamp(table[id].created_at).val]
        ELSE table[id]]

\* The total overwritten by the last rowcount.
AccumulateOverwrite(total, u) == u

\* total_backfilled += updated
Accumulate(total, u) == total + u

\* The test inverted: break when rows were updated.
LoopExitInverted(u, b) == u # 0

\* if updated == 0: break
LoopExit(u, b) == u = 0

\* batch_num % 10 == 0
ProgressEvery == 10

\* for record in small_records: record.created_at_new = make_aware(strptime(...))
\* SmallRecord.objects.bulk_update(small_records, ['created_at_new'])
SmallBackfilled(table) ==
    [id \in DOMAIN table |->
        [table[id] EXCEPT !.created_at_new = Strptime(table[id].created_at).val]]

StrptimeFails(table) == \E id \in DOMAIN table : ~Strptime(table[id].created_at).ok

\* The exception swallowed: the command goes on.
StatusAfterErrorSwallowed == "running"

\* An exception raised by an operation is caught nowhere in the migration: it
\* leaves the migrate command, which ends failed.
StatusAfterError == "failed"

CustomerIds == {1, 2}
OrderCustomerDomain == {1, 2, 3}

\* total_amount of a seeded LargeOrder: some amount between 10.00 and 5000.00.
AmountDomain == {10, 4999}

Orphans(orders) == {id \in DOMAIN orders : orders[id] \notin CustomerIds}

----------------------------------------------------------------------------
(* Initial states: the database after 0001_initial and seeding *)

EmptyTable == << >>

InitCommon ==
    /\ status = "idle"
    /\ run = 0
    /\ applied = {Initial}
    /\ cur = NoMigration
    /\ op = 1
    /\ has_col = FALSE
    /\ locked = {}
    /\ fk = [t \in {"small_order", "large_order"} |-> "absent"]
    /\ bpc = "small"
    /\ total_backfilled = 0
    /\ batch_num = 0
    /\ updated = 0
    /\ stdout = << >>
    /\ rowcounts = << >>
    /\ totals = << >>
    /\ err_seen = FALSE
    /\ crash_at = {}
    /\ crash_sizes = {}
    /\ seen_nulls = -1
    /\ start_nulls = -1
    /\ inserts = 0
    /\ reverts = 0
    /\ unwound = FALSE
    /\ first_apply = NULL
    /\ seed = [pc |-> "idle", large_count |-> 0, batch_size |-> 1, batch_start |-> 0,
               total_created |-> 0, next_id |-> Cardinality(DOMAIN large_record) + 1,
               runs |-> 0, bulks |-> << >>]
    /\ raced = NULL
    /\ requests = [r \in 1..MaxRequests |-> [pc |-> "idle", order |-> NULL, success |-> FALSE]]
    /\ initial_amount = total_amount
    /\ committed = View

\* proj04 with small tables of any content a CharField can hold.
InitProj04 ==
    /\ proj = "proj04"
    /\ \E n \in 0..MaxRows : \E f \in [1..n -> StrDomain] :
           large_record = [i \in 1..n |-> Row(i, f[i])]
    /\ \E f \in [1..MaxSmallRows -> StrDomain] :
           small_record = [i \in 1..MaxSmallRows |-> Row(i, f[i])]
    /\ batch_size \in 1..MaxBatch
    /\ scan = "any"
    /\ small_order = EmptyTable
    /\ large_order = EmptyTable
    /\ total_amount = 0

\* proj04 as seed_large_table --large-count 25 leaves it, backfilled 10 at a time.
InitScenario ==
    /\ proj = "proj04"
    /\ large_record = [i \in 1..25 |-> Row(i, SeedCreatedAt(i))]
    /\ small_record = [i \in 1..MaxSmallRows |-> Row(i, Str("full", 1))]
    /\ batch_size = 10
    /\ scan = "id"
    /\ small_order = EmptyTable
    /\ large_order = EmptyTable
    /\ total_amount = 0

InitProj07 ==
    /\ proj = "proj07"
    /\ large_record = EmptyTable
    /\ small_record = EmptyTable
    /\ batch_size = 1
    /\ scan = "any"
    /\ small_order \in [1..MaxOrders -> OrderCustomerDomain]
    /\ large_order \in [1..MaxOrders -> OrderCustomerDomain]
    /\ total_amount \in AmountDomain

Init == (InitProj04 \/ InitScenario \/ InitProj07) /\ InitCommon

----------------------------------------------------------------------------
(* The migrate command *)

dbVars == <<has_col, large_record, small_record, fk, locked, committed>>
orderVars == <<small_order, large_order>>
loopVars == <<bpc, total_backfilled, batch_num, updated, rowcounts, totals, seen_nulls,
              start_nulls>>
webVars == <<total_amount, requests, initial_amount>>
extVars == <<seed, raced, webVars>>
fixedVars == <<proj, scan, batch_size, inserts, crash_at, crash_sizes, extVars>>
revVars == <<reverts, unwound, first_apply>>

\* manage.py migrate, invoked by the operator, with batch_size = b in the
\* migration file.
MigrateWith(b) ==
    /\ status \in {"idle", "failed", "interrupted", "reverted"}
    /\ run < MaxRuns
    /\ status' = "running"
    /\ run' = run + 1
    /\ cur' = NoMigration
    /\ op' = 1
    /\ stdout' = << >>
    /\ err_seen' = FALSE
    /\ bpc' = "small"
    /\ total_backfilled' = 0
    /\ batch_num' = 0
    /\ updated' = 0
    /\ rowcounts' = << >>
    /\ totals' = << >>
    /\ seen_nulls' = -1
    /\ start_nulls' = -1
    /\ batch_size' = b
    /\ UNCHANGED <<applied>>
    /\ UNCHANGED <<proj, scan, inserts, crash_at, crash_sizes, extVars>>
    /\ UNCHANGED <<dbVars, orderVars, revVars>>

Migrate == MigrateWith(batch_size)

\* migrate invoked after the operator edited batch_size in the migration file.
MigrateResized ==
    /\ proj = "proj04"
    /\ scan = "any"
    /\ \E b \in (1..MaxBatch) \ {batch_size} : MigrateWith(b)

\* The executor picks an unapplied migration whose dependencies are applied and
\* opens its transaction.
StartMigration(m) ==
    /\ status = "running"
    /\ cur = NoMigration
    /\ m \in Migrations(proj) \ applied
    /\ Dependencies(m) \subseteq applied
    /\ cur' = m
    /\ op' = 1
    /\ UNCHANGED <<status, run, applied, stdout, err_seen>>
    /\ UNCHANGED <<dbVars, orderVars, fixedVars, loopVars, revVars>>

\* The open transaction is rolled back and the command ends with status st.
Abort(st) ==
    /\ status' = st
    /\ cur' = NoMigration
    /\ op' = 1
    /\ has_col' = committed.has_col
    /\ large_record' = committed.large_record
    /\ small_record' = committed.small_record
    /\ fk' = committed.fk
    /\ locked' = {}
    /\ UNCHANGED <<run, applied, committed, stdout>>
    /\ UNCHANGED <<proj, scan, batch_size, inserts, extVars>>
    /\ UNCHANGED <<orderVars, loopVars, revVars>>

Raise ==
    /\ Abort(StatusAfterError)
    /\ err_seen' = TRUE
    /\ UNCHANGED <<crash_at, crash_sizes>>

\* The process is interrupted (SIGINT, SIGTERM, a lost connection).
Interrupt ==
    /\ status \in {"running", "reverting"}
    /\ Abort("interrupted")
    /\ crash_at' = IF status = "running" /\ CurOp = "backfill" /\ bpc = "loop"
                   THEN crash_at \cup {batch_num}
                   ELSE crash_at
    /\ crash_sizes' = IF status = "running" /\ CurOp = "backfill" /\ bpc = "loop"
                      THEN crash_sizes \cup {batch_size}
                      ELSE crash_sizes
    /\ UNCHANGED err_seen

\* All operations of cur ran: record it as applied and commit.
FinishMigration ==
    /\ status = "running"
    /\ cur # NoMigration
    /\ op > Len(Operations(cur))
    /\ applied' = applied \cup {cur}
    /\ committed' = View
    /\ locked' = {}
    /\ cur' = NoMigration
    /\ op' = 1
    /\ UNCHANGED <<status, run, stdout, err_seen>>
    /\ UNCHANGED <<has_col, large_record, small_record, fk>>
    /\ UNCHANGED <<orderVars, fixedVars, loopVars, revVars>>

\* Nothing is left to apply.
Finish ==
    /\ status = "running"
    /\ cur = NoMigration
    /\ Migrations(proj) \subseteq applied
    /\ status' = "done"
    /\ first_apply' = IF first_apply = NULL THEN committed ELSE first_apply
    /\ UNCHANGED <<run, applied, cur, op, stdout, err_seen>>
    /\ UNCHANGED <<dbVars, orderVars, fixedVars, loopVars, reverts, unwound>>

----------------------------------------------------------------------------
(* proj04: the operations *)

\* The loop has no iteration limit.  Every batch but the last writes a row, so
\* it runs at most one batch per row; the model stops a loop that went further.
BatchCap == Cardinality(DOMAIN large_record)

\* 0002: AddField created_at_new (nullable) on both tables; ADD COLUMN of a
\* column already there is an error.
AddColumn ==
    /\ status = "running"
    /\ CurOp = "add_column"
    /\ IF has_col
       THEN Raise
       ELSE /\ has_col' = TRUE
            /\ op' = op + 1
            /\ committed' = AfterStatement(cur, [View EXCEPT !.has_col = TRUE])
            /\ UNCHANGED <<status, run, applied, cur, stdout, err_seen>>
            /\ UNCHANGED <<large_record, small_record, fk, locked>>
            /\ UNCHANGED <<orderVars, fixedVars, loopVars, revVars>>

\* backfill_created_at_new, the SmallRecord part, and the loop's locals.
BackfillSmall ==
    /\ status = "running"
    /\ CurOp = "backfill"
    /\ bpc = "small"
    /\ IF ~has_col \/ StrptimeFails(small_record)
       THEN Raise
       ELSE /\ small_record' = SmallBackfilled(small_record)
            /\ committed' = AfterStatement(cur,
                   [View EXCEPT !.small_record = SmallBackfilled(small_record)])
            /\ stdout' = Append(stdout, "small_complete")
            /\ bpc' = "loop"
            /\ total_backfilled' = 0
            /\ batch_num' = 0
            /\ start_nulls' = Cardinality(NullIds(large_record))
            /\ UNCHANGED <<status, run, applied, cur, op, err_seen>>
            /\ UNCHANGED <<has_col, large_record, fk, locked>>
            /\ UNCHANGED <<updated, rowcounts, totals, seen_nulls>>
            /\ UNCHANGED <<orderVars, fixedVars, revVars>>

\* The UPDATE writing the rows sel, the test of its rowcount, the counters and
\* the progress line.
BatchUpdate(sel) ==
    IF CastFails(large_record, sel)
    THEN Raise
    ELSE LET table == UpdateRows(large_record, sel)
             n == Cardinality(sel)
         IN  /\ large_record' = table
             /\ locked' = LocksAfter(cur, sel)
             /\ committed' = AfterStatement(cur, [View EXCEPT !.large_record = table])
             /\ updated' = n
             /\ seen_nulls' = Cardinality(NullIds(large_record))
             /\ IF LoopExit(n, batch_size)
                THEN /\ bpc' = "report"
                     /\ UNCHANGED <<total_backfilled, batch_num, rowcounts, totals, stdout>>
                ELSE /\ total_backfilled' = Accumulate(total_backfilled, n)
                     /\ batch_num' = batch_num + 1
                     /\ rowcounts' = Append(rowcounts, n)
                     /\ totals' = Append(totals, Accumulate(total_backfilled, n))
                     /\ stdout' = IF (batch_num + 1) % ProgressEvery = 0
                                  THEN Append(stdout, "progress")
                                  ELSE stdout
                     /\ UNCHANGED bpc
             /\ UNCHANGED <<status, run, applied, cur, op, err_seen>>
             /\ UNCHANGED <<has_col, small_record, fk, start_nulls>>
             /\ UNCHANGED <<orderVars, fixedVars, revVars>>

\* One iteration of the while loop, no other connection writing a selected row
\* while the UPDATE runs.
BackfillBatch ==
    /\ status = "running"
    /\ CurOp = "backfill"
    /\ bpc = "loop"
    /\ batch_num <= BatchCap
    /\ \E sel \in SelectBatch(large_record, batch_size, scan) : BatchUpdate(sel)

\* print(... LargeRecord backfill complete! ...) and the function returns.
BackfillReport ==
    /\ status = "running"
    /\ CurOp = "backfill"
    /\ bpc = "report"
    /\ stdout' = Append(stdout, "large_complete")
    /\ bpc' = "returned"
    /\ op' = op + 1
    /\ UNCHANGED <<status, run, applied, cur, err_seen>>
    /\ UNCHANGED <<total_backfilled, batch_num, updated, rowcounts, totals, seen_nulls,
                   start_nulls>>
    /\ UNCHANGED <<dbVars, orderVars, fixedVars, revVars>>

----------------------------------------------------------------------------
(* proj07: the operations *)

LogOps == {"log_smallorder_start", "log_smallorder_end",
           "log_largeorder_start", "log_largeorder_end",
           "log_smallorder_validate_start", "log_smallorder_validate_end",
           "log_largeorder_validate_start", "log_largeorder_validate_end"}

\* RunPython(log_...): prints one line.
RunLog ==
    /\ status = "running"
    /\ CurOp \in LogOps
    /\ stdout' = Append(stdout, CurOp)
    /\ op' = op + 1
    /\ UNCHANGED <<status, run, applied, cur, err_seen>>
    /\ UNCHANGED <<dbVars, orderVars, fixedVars, loopVars, revVars>>

Orders(t) == IF t = "small_order" THEN small_order ELSE large_order

\* ALTER TABLE t ADD CONSTRAINT ... FOREIGN KEY ... NOT VALID: existing rows are
\* not checked; a constraint of that name already there is an error.
AddFkNotValid(t, name) ==
    /\ status = "running"
    /\ CurOp = name
    /\ IF fk[t] # "absent"
       THEN Raise
       ELSE /\ fk' = [fk EXCEPT ![t] = "not_valid"]
            /\ committed' = AfterStatement(cur, [View EXCEPT !.fk = [fk EXCEPT ![t] = "not_valid"]])
            /\ op' = op + 1
            /\ UNCHANGED <<status, run, applied, cur, stdout, err_seen>>
            /\ UNCHANGED <<has_col, large_record, small_record, locked>>
            /\ UNCHANGED <<orderVars, fixedVars, loopVars, revVars>>

\* ALTER TABLE t VALIDATE CONSTRAINT ...: scans every row; an error when the
\* constraint does not exist or a row references no customer.
ValidateFk(t, name) ==
    /\ status = "running"
    /\ CurOp = name
    /\ IF fk[t] = "absent" \/ Orphans(Orders(t)) # {}
       THEN Raise
       ELSE /\ fk' = [fk EXCEPT ![t] = "valid"]
            /\ committed' = AfterStatement(cur, [View EXCEPT !.fk = [fk EXCEPT ![t] = "valid"]])
            /\ op' = op + 1
            /\ UNCHANGED <<status, run, applied, cur, stdout, err_seen>>
            /\ UNCHANGED <<has_col, large_record, small_record, locked>>
            /\ UNCHANGED <<orderVars, fixedVars, loopVars, revVars>>

----------------------------------------------------------------------------
(* migrate demoapp 0001: the plan unapplied, last migration first *)

\* The operation of cur whose reverse runs next: the operations of a migration
\* are reversed from the last to the first.
CurRevOp ==
    IF cur # NoMigration /\ op <= Len(Operations(cur))
    THEN Operations(cur)[Len(Operations(cur)) + 1 - op]
    ELSE "none"

\* manage.py migrate demoapp 0001, invoked by the operator.
MigrateBack ==
    /\ status \in {"idle", "failed", "interrupted", "reverted", "done"}
    /\ reverts < MaxReverts
    /\ status' = "reverting"
    /\ reverts' = reverts + 1
    /\ cur' = NoMigration
    /\ op' = 1
    /\ stdout' = << >>
    /\ err_seen' = FALSE
    /\ bpc' = "small"
    /\ total_backfilled' = 0
    /\ batch_num' = 0
    /\ updated' = 0
    /\ rowcounts' = << >>
    /\ totals' = << >>
    /\ seen_nulls' = -1
    /\ start_nulls' = -1
    /\ UNCHANGED <<run, applied, unwound, first_apply>>
    /\ UNCHANGED <<dbVars, orderVars, fixedVars>>

\* The executor picks an applied migration on which no applied migration depends
\* and opens its transaction.
StartUnapply(m) ==
    /\ status = "reverting"
    /\ cur = NoMigration
    /\ m \in Migrations(proj) \cap applied
    /\ \A n \in Migrations(proj) \cap applied : m \notin Dependencies(n)
    /\ cur' = m
    /\ op' = 1
    /\ UNCHANGED <<status, run, applied, stdout, err_seen>>
    /\ UNCHANGED <<dbVars, orderVars, fixedVars, loopVars, revVars>>

\* The operations whose reverse is RunPython.noop or RunSQL.noop: the log lines
\* and both VALIDATE CONSTRAINT.
NoopReverse == LogOps \cup {"validate_small", "validate_large"}

ReverseNoop ==
    /\ status = "reverting"
    /\ CurRevOp \in NoopReverse
    /\ op' = op + 1
    /\ UNCHANGED <<status, run, applied, cur, stdout, err_seen>>
    /\ UNCHANGED <<dbVars, orderVars, fixedVars, loopVars, revVars>>

\* ALTER TABLE t DROP CONSTRAINT IF EXISTS ...: no error when it is absent.
DropFk(t, name) ==
    /\ status = "reverting"
    /\ CurRevOp = name
    /\ fk' = [fk EXCEPT ![t] = "absent"]
    /\ committed' = AfterStatement(cur, [View EXCEPT !.fk = [fk EXCEPT ![t] = "absent"]])
    /\ op' = op + 1
    /\ UNCHANGED <<status, run, applied, cur, stdout, err_seen>>
    /\ UNCHANGED <<has_col, large_record, small_record, locked>>
    /\ UNCHANGED <<orderVars, fixedVars, loopVars, revVars>>

\* Model.objects.update(created_at_new=None): one UPDATE of every row.
UpdateAllNull(table) == [id \in DOMAIN table |-> [table[id] EXCEPT !.created_at_new = NULL]]

\* reverse_backfill: SmallRecord.objects.update(created_at_new=None), then
\* LargeRecord.objects.update(created_at_new=None).
ReverseBackfill ==
    /\ status = "reverting"
    /\ CurRevOp = "backfill"
    /\ small_record' = UpdateAllNull(small_record)
    /\ large_record' = UpdateAllNull(large_record)
    /\ locked' = LocksAfter(cur, DOMAIN large_record)
    /\ committed' = AfterStatement(cur,
           [View EXCEPT !.small_record = UpdateAllNull(small_record),
                        !.large_record = UpdateAllNull(large_record)])
    /\ op' = op + 1
    /\ UNCHANGED <<status, run, applied, cur, stdout, err_seen>>
    /\ UNCHANGED <<has_col, fk>>
    /\ UNCHANGED <<orderVars, fixedVars, loopVars, revVars>>

\* 0002 reversed: the column created_at_new is dropped from both tables.
DropColumn ==
    /\ status = "reverting"
    /\ CurRevOp = "add_column"
    /\ has_col' = FALSE
    /\ small_record' = UpdateAllNull(small_record)
    /\ large_record' = UpdateAllNull(large_record)
    /\ committed' = AfterStatement(cur,
           [View EXCEPT !.has_col = FALSE,
                        !.small_record = UpdateAllNull(small_record),
                        !.large_record = UpdateAllNull(large_record)])
    /\ op' = op + 1
    /\ UNCHANGED <<status, run, applied, cur, stdout, err_seen>>
    /\ UNCHANGED <<fk, locked>>
    /\ UNCHANGED <<orderVars, fixedVars, loopVars, revVars>>

\* All operations of cur are reversed: its record is deleted and the
\* transaction commits.
FinishUnapply ==
    /\ status = "reverting"
    /\ cur # NoMigration
    /\ op > Len(Operations(cur))
    /\ applied' = applied \ {cur}
    /\ committed' = View
    /\ locked' = {}
    /\ cur' = NoMigration
    /\ op' = 1
    /\ UNCHANGED <<status, run, stdout, err_seen>>
    /\ UNCHANGED <<has_col, large_record, small_record, fk>>
    /\ UNCHANGED <<orderVars, fixedVars, loopVars, revVars>>

\* Nothing is left to unapply.
FinishRevert ==
    /\ status = "reverting"
    /\ cur = NoMigration
    /\ Migrations(proj) \cap applied = {}
    /\ status' = "reverted"
    /\ unwound' = (unwound \/ first_apply # NULL)
    /\ UNCHANGED <<run, applied, cur, op, stdout, err_seen>>
    /\ UNCHANGED <<dbVars, orderVars, fixedVars, loopVars, reverts, first_apply>>

\* m and the migrations that depend on it.
WithDependents(m) == {m} \cup {n \in Migrations(proj) : m \in Dependencies(n)}

\* manage.py migrate --fake demoapp <the migration before m>: the records of m
\* and of its dependents are deleted and no operation is run, so the next
\* migrate runs their forward operations again on the database as it is.
MigrateFakeBack(m) ==
    /\ status \in {"idle", "failed", "interrupted", "reverted", "done"}
    /\ reverts < MaxReverts
    /\ m \in Migrations(proj) \cap applied
    /\ status' = "reverted"
    /\ reverts' = reverts + 1
    /\ applied' = applied \ WithDependents(m)
    /\ cur' = NoMigration
    /\ op' = 1
    /\ err_seen' = FALSE
    /\ UNCHANGED <<run, stdout, unwound, first_apply>>
    /\ UNCHANGED <<dbVars, orderVars, fixedVars, loopVars>>

----------------------------------------------------------------------------
(* Other connections *)

\* Another connection inserts a LargeRecord through the model (autocommit), as
\* seed_large_table does: the model has no created_at_new, so it is left NULL.
WriterInsert ==
    /\ proj = "proj04"
    /\ inserts < MaxInserts
    /\ LET id == Cardinality(DOMAIN large_record) + 1
           row == Row(id, SeedCreatedAt(id))
           ins(table) == [i \in DOMAIN table \cup {id} |-> IF i = id THEN row ELSE table[i]]
       IN  /\ large_record' = ins(large_record)
           /\ committed' = [committed EXCEPT !.large_record = ins(committed.large_record)]
    /\ inserts' = inserts + 1
    /\ UNCHANGED <<proj, scan, batch_size, crash_at, crash_sizes, extVars>>
    /\ UNCHANGED <<status, run, applied, cur, op, stdout, err_seen>>
    /\ UNCHANGED <<has_col, small_record, fk, locked>>
    /\ UNCHANGED <<orderVars, loopVars, revVars>>

\* What a connection that writes the new column itself stores in it: the time
\* of the write, which is the cast of no created_at.
WriterValue == Timestamp(31, 23)

\* While the loop runs, another connection sets created_at_new of a row in
\* which it is NULL (autocommit).  A row the migration has written is locked
\* until the migration ends, so it is not among them.
WriterSet ==
    /\ proj = "proj04"
    /\ committed.has_col
    /\ status = "running"
    /\ CurOp = "backfill"
    /\ bpc = "loop"
    /\ inserts < MaxInserts
    /\ \E id \in ((1..MaxRows) \cap NullIds(committed.large_record) \cap NullIds(large_record))
                  \ locked :
         LET set(table) == [table EXCEPT ![id].created_at_new = WriterValue]
         IN  /\ large_record' = set(large_record)
             /\ committed' = [committed EXCEPT !.large_record = set(committed.large_record)]
             /\ raced' = [id |-> id, run |-> run, stmt |-> batch_num]
    /\ inserts' = inserts + 1
    /\ UNCHANGED <<proj, scan, batch_size, crash_at, crash_sizes, seed, webVars>>
    /\ UNCHANGED <<status, run, applied, cur, op, stdout, err_seen>>
    /\ UNCHANGED <<has_col, small_record, fk, locked>>
    /\ UNCHANGED <<orderVars, loopVars, revVars>>

\* The rows as the snapshot of an UPDATE saw them that began before the other
\* connection committed: the raced row still with created_at_new NULL.
Snapshot(table) == [table EXCEPT ![raced.id].created_at_new = NULL]

\* One iteration of the while loop whose UPDATE began before the other
\* connection committed and reached the raced row after: under READ COMMITTED
\* the subquery ran on the snapshot, where the row matched, and the outer
\* WHERE id IN (...), the only condition checked again on the row's new
\* version, still holds, so the UPDATE writes the new version.
BackfillBatchRaced ==
    /\ status = "running"
    /\ CurOp = "backfill"
    /\ bpc = "loop"
    /\ batch_num <= BatchCap
    /\ raced # NULL
    /\ raced.run = run
    /\ raced.stmt = batch_num
    /\ \E sel \in SelectBatch(Snapshot(large_record), batch_size, scan) :
         /\ raced.id \in sel
         /\ BatchUpdate(sel)

----------------------------------------------------------------------------
(* manage.py seed_large_table --large-count n --batch-size b (proj04) *)

\* range(1, 11): the SmallRecord rows created.
SeedSmallCount == 10

\* if total_created % 100000 == 0
SeedProgressEvery == 100000

\* The last batch as long as the others.
BatchEndNoMin(batch_start, b, large_count) == batch_start + b

\* batch_end = min(batch_start + batch_size, large_count)
BatchEnd(batch_start, b, large_count) == Min(batch_start + b, large_count)

\* LargeRecord(name=f'LargeRecord_{i}', created_at=f'2024-01-{((i % 28) + 1):02d} 10:00:00')
\* for i in range(batch_start + 1, batch_end + 1), in that order.
SeedRows(batch_start, batch_end) ==
    [k \in 1..(batch_end - batch_start) |->
        Row(batch_start + k, SeedCreatedAt(batch_start + k))]

\* bulk_create(rows): every row inserted under the next id of the sequence.
BulkCreate(table, rows, next_id) ==
    [id \in DOMAIN table \cup {next_id + k - 1 : k \in 1..Len(rows)} |->
        IF id \in DOMAIN table THEN table[id] ELSE rows[id - next_id + 1]]

\* handle up to the loop: the arguments, SmallRecord deleted and re-created,
\* LargeRecord.objects.all().delete(), total_created = 0.  Every statement
\* commits by itself.
SeedStart ==
    /\ proj = "proj04"
    /\ status = "idle"
    /\ run = 0
    /\ reverts = 0
    /\ seed.pc \in {"idle", "done"}
    /\ seed.runs < MaxSeedRuns
    /\ \E n \in 0..MaxSeedCount : \E b \in 1..MaxSeedBatch :
           seed' = [seed EXCEPT !.pc = "loop", !.large_count = n, !.batch_size = b,
                                !.batch_start = 0, !.total_created = 0,
                                !.runs = @ + 1, !.bulks = << >>]
    /\ LET small == [i \in 1..SeedSmallCount |-> Row(i, Str("full", 1))]
       IN  /\ small_record' = small
           /\ large_record' = EmptyTable
           /\ committed' = [committed EXCEPT !.small_record = small,
                                             !.large_record = EmptyTable]
    /\ stdout' = << >>
    /\ UNCHANGED <<status, run, applied, cur, op, err_seen>>
    /\ UNCHANGED <<has_col, fk, locked>>
    /\ UNCHANGED <<proj, scan, batch_size, inserts, crash_at, crash_sizes, raced, webVars>>
    /\ UNCHANGED <<orderVars, loopVars, revVars>>

\* One iteration of for batch_start in range(0, large_count, batch_size).
SeedBatch ==
    /\ seed.pc = "loop"
    /\ seed.batch_start < seed.large_count
    /\ LET batch_end == BatchEnd(seed.batch_start, seed.batch_size, seed.large_count)
           large_records == SeedRows(seed.batch_start, batch_end)
           table == BulkCreate(large_record, large_records, seed.next_id)
           total == seed.total_created + Len(large_records)
       IN  /\ large_record' = table
           /\ committed' = [committed EXCEPT !.large_record = table]
           /\ seed' = [seed EXCEPT !.batch_start = @ + seed.batch_size,
                                    !.total_created = total,
                                    !.next_id = @ + Len(large_records),
                                    !.bulks = Append(@, Len(large_records))]
           /\ stdout' = IF total % SeedProgressEvery = 0
                        THEN Append(stdout, "seed_progress")
                        ELSE stdout
    /\ UNCHANGED <<status, run, applied, cur, op, err_seen>>
    /\ UNCHANGED <<has_col, small_record, fk, locked>>
    /\ UNCHANGED <<proj, scan, batch_size, inserts, crash_at, crash_sizes, raced, webVars>>
    /\ UNCHANGED <<orderVars, loopVars, revVars>>

\* The range is exhausted: 'Created ... LargeRecord records', 'Seeding complete!'.
SeedFinish ==
    /\ seed.pc = "loop"
    /\ seed.batch_start >= seed.large_count
    /\ seed' = [seed EXCEPT !.pc = "done"]
    /\ stdout' = Append(stdout, "seed_complete")
    /\ UNCHANGED <<status, run, applied, cur, op, err_seen>>
    /\ UNCHANGED <<dbVars, orderVars, loopVars, revVars>>
    /\ UNCHANGED <<proj, scan, batch_size, inserts, crash_at, crash_sizes, raced, webVars>>

----------------------------------------------------------------------------
(* proj07: the view update_order, one process per request *)

\* order = LargeOrder.objects.first(); without an order the view returns
\* {'success': False, 'error': 'No orders found'}.
UpdateOrderRead(r) ==
    /\ proj = "proj07"
    /\ requests[r].pc = "idle"
    /\ requests' = [requests EXCEPT ![r] =
           IF DOMAIN large_order # {}
           THEN [pc |-> "loaded", order |-> [total_amount |-> total_amount], success |-> FALSE]
           ELSE [pc |-> "returned", order |-> NULL, success |-> FALSE]]
    /\ UNCHANGED <<total_amount, initial_amount, seed, raced>>
    /\ UNCHANGED <<status, run, applied, cur, op, stdout, err_seen>>
    /\ UNCHANGED <<proj, scan, batch_size, inserts, crash_at, crash_sizes>>
    /\ UNCHANGED <<dbVars, orderVars, loopVars, revVars>>

\* order.total_amount += Decimal('1.00'); order.save(); the view returns
\* {'success': True, ...}.  save() writes the object's fields to the row.
UpdateOrderSave(r) ==
    /\ proj = "proj07"
    /\ requests[r].pc = "loaded"
    /\ LET amount == requests[r].order.total_amount + 1
       IN  /\ total_amount' = amount
           /\ requests' = [requests EXCEPT ![r] =
                  [pc |-> "returned", order |-> [total_amount |-> amount], success |-> TRUE]]
    /\ UNCHANGED <<initial_amount, seed, raced>>
    /\ UNCHANGED <<status, run, applied, cur, op, stdout, err_seen>>
    /\ UNCHANGED <<proj, scan, batch_size, inserts, crash_at, crash_sizes>>
    /\ UNCHANGED <<dbVars, orderVars, loopVars, revVars>>

----------------------------------------------------------------------------
(* Specifications *)

Next ==
    \/ Migrate
    \/ \E m \in Migrations(proj) : StartMigration(m)
    \/ AddColumn
    \/ BackfillSmall
    \/ BackfillBatch
    \/ BackfillReport
    \/ RunLog
    \/ AddFkNotValid("small_order", "add_fk_small")
    \/ AddFkNotValid("large_order", "add_fk_large")
    \/ ValidateFk("small_order", "validate_small")
    \/ ValidateFk("large_order", "validate_large")
    \/ FinishMigration
    \/ Finish
    \/ Interrupt
    \/ MigrateBack
    \/ \E m \in Migrations(proj) : StartUnapply(m)
    \/ ReverseNoop
    \/ DropFk("small_order", "add_fk_small")
    \/ DropFk("large_order", "add_fk_large")
    \/ ReverseBackfill
    \/ DropColumn
    \/ FinishUnapply
    \/ FinishRevert

\* One migrate command, no other connection writing.
Spec == Init /\ [][Next]_vars

\* With concurrent writers.
NextConc == Next \/ WriterInsert

ConcSpec == Init /\ [][NextConc]_vars

\* The web server alone: update_order requests served concurrently.
NextWeb == \E r \in 1..MaxRequests : UpdateOrderRead(r) \/ UpdateOrderSave(r)

WebSpec == Init /\ [][NextWeb]_vars

\* With a connection writing created_at_new while the backfill runs.
NextRace == Next \/ WriterSet \/ BackfillBatchRaced

RaceSpec == Init /\ [][NextRace]_vars

\* The seed command alone, on a database no migration has run on yet.
NextSeed == SeedStart \/ SeedBatch \/ SeedFinish

SeedSpec == Init /\ [][NextSeed]_vars

\* With the operator also changing batch_size between two runs.
NextResize == Next \/ MigrateResized

ResizeSpec == Init /\ [][NextResize]_vars

\* With the operator also unapplying migrations by record only.
NextReapply == Next \/ \E m \in Migrations(proj) : MigrateFakeBack(m)

ReapplySpec == Init /\ [][NextReapply]_vars

\* The steps the migrate process takes by itself, once started.
Engine ==
    \/ \E m \in Migrations(proj) : StartMigration(m)
    \/ AddColumn
    \/ BackfillSmall
    \/ BackfillBatch
    \/ BackfillReport
    \/ RunLog
    \/ AddFkNotValid("small_order", "add_fk_small")
    \/ AddFkNotValid("large_order", "add_fk_large")
    \/ ValidateFk("small_order", "validate_small")
    \/ ValidateFk("large_order", "validate_large")
    \/ FinishMigration
    \/ Finish
    \/ \E m \in Migrations(proj) : StartUnapply(m)
    \/ ReverseNoop
    \/ DropFk("small_order", "add_fk_small")
    \/ DropFk("large_order", "add_fk_large")
    \/ ReverseBackfill
    \/ DropColumn
    \/ FinishUnapply
    \/ FinishRevert

\* A running process keeps running: it is interrupted or it takes its next step.
FairSpec == Spec /\ WF_vars(Engine)

----------------------------------------------------------------------------
(* Properties *)

Filled(table) == DOMAIN table \ NullIds(table)

Castable(table) == \A id \in DOMAIN table : CastTimestamp(table[id].created_at).ok

IsPrefix(s, t) == Len(s) <= Len(t) /\ s = SubSeq(t, 1, Len(s))

InLoop == status = "running" /\ CurOp = "backfill" /\ bpc = "loop"

Scenario == proj = "proj04" /\ Cardinality(DOMAIN large_record) = 25 /\ batch_size = 10

\* The table as it was before the backfill: created_at_new NULL in every row.
Unfilled(table) == [id \in DOMAIN table |-> [table[id] EXCEPT !.created_at_new = NULL]]

\* The loop of backfill_created_at_new run to its end without interruption.
RECURSIVE RunLoop(_, _)
RunLoop(table, b) ==
    LET sel == CHOOSE S \in SelectBatch(table, b, "id") : TRUE
    IN  IF LoopExit(Cardinality(sel), b) \/ CastFails(table, sel)
        THEN table
        ELSE RunLoop(UpdateRows(table, sel), b)

\* C1: idempotent resume.  When migrate completes after the backfill loop was
\* interrupted after k batches (for any k) and re-invoked from scratch, the
\* table has the rows, and in every row the created_at_new, that an
\* uninterrupted run of the loop over the same table produces.
IdempotentResume ==
    (proj = "proj04" /\ status = "done" /\ crash_at # {}) =>
        /\ DOMAIN committed.large_record = DOMAIN RunLoop(Unfilled(large_record), batch_size)
        /\ \A id \in DOMAIN committed.large_record :
              committed.large_record[id].created_at_new =
                  RunLoop(Unfilled(large_record), batch_size)[id].created_at_new

IdempotentResumeWitness ==
    /\ proj = "proj04"
    /\ status = "done"
    /\ \E k \in crash_at : k >= 1
    /\ Cardinality(DOMAIN committed.large_record) >= 2

\* C2: each batch is its own transaction.  When the UPDATE of a batch fails,
\* the rows written by the earlier batches of the step remain committed.
FailedBatchKeepsEarlierBatches ==
    (proj = "proj04" /\ status = "failed" /\ bpc = "loop") =>
        Cardinality(Filled(committed.large_record)) >= total_backfilled

LockFootprintOneBatch == Cardinality(locked) <= batch_size

\* C5: termination.  Over a table whose rows all cast, the loop, once entered,
\* reaches a selection that matches no row and exits (unless the process is
\* interrupted from outside).
LoopTerminates ==
    (InLoop /\ Castable(large_record)) ~>
        \/ status = "running" /\ bpc = "report" /\ NullIds(large_record) = {}
        \/ status = "interrupted"

LoopTerminatesWitness ==
    /\ status = "running"
    /\ bpc = "report"
    /\ batch_num >= 2
    /\ NullIds(large_record) = {}

\* C6: after the first operation or batch that raises, nothing more is
\* attempted in that run of migrate: the command is failed, no migration is
\* open, and the database, the applied migrations, the loop and the output stay
\* as they are until the operator invokes migrate again, forwards or backwards.
StopsAtFirstFailure ==
    [][/\ err_seen' => (status' = "failed" /\ cur' = NoMigration)
       /\ (err_seen /\ run' = run /\ reverts' = reverts) =>
              UNCHANGED <<has_col, large_record, small_record, fk, committed,
                          applied, stdout, loopVars, cur, op>>]_vars

StopsAtFirstFailureWitness ==
    /\ err_seen
    /\ status = "failed"
    /\ proj = "proj07"
    /\ P7AddFk \in applied
    /\ P7Validate \notin applied
    /\ Orphans(small_order) # {}
    /\ fk["large_order"] = "not_valid"

\* C7: the report 'LargeRecord backfill complete' is printed only in a state
\* where no row of large_record has created_at_new NULL.
ReportOnlyWhenComplete ==
    [][(/\ Len(stdout') = Len(stdout) + 1
        /\ stdout'[Len(stdout')] = "large_complete")
       => (NullIds(large_record) = {} /\ NullIds(large_record') = {})]_vars

ReportOnlyWhenCompleteWitness ==
    /\ status = "running"
    /\ bpc = "returned"
    /\ Len(stdout) > 0
    /\ stdout[Len(stdout)] = "large_complete"
    /\ total_backfilled >= 2

\* C8: backfilling 25 rows 10 at a time makes exactly 3 non-empty batches of 10,
\* 10 and 5 rows, the running total is 10, 20, 25, the last selection is
\* empty, and the step completes.
ScenarioBatches ==
    (Scenario /\ status \in {"running", "done"}) =>
        /\ IsPrefix(rowcounts, <<10, 10, 5>>)
        /\ IsPrefix(totals, <<10, 20, 25>>)
        /\ (bpc \in {"report", "returned"} =>
               /\ rowcounts = <<10, 10, 5>>
               /\ totals = <<10, 20, 25>>
               /\ batch_num = 3
               /\ updated = 0
               /\ NullIds(large_record) = {})
        /\ (status = "done" =>
               (P4Backfill \in applied /\ NullIds(committed.large_record) = {}))

ScenarioBatchesWitness ==
    /\ Scenario
    /\ status = "done"
    /\ totals = <<10, 20, 25>>
    /\ NullIds(committed.large_record) = {}

\* C9: cancellation.  When the run is cancelled from outside, the batches it had
\* finished stay intact.
CancelKeepsFinishedBatches ==
    (proj = "proj04" /\ status = "interrupted" /\ bpc = "loop") =>
        Cardinality(Filled(committed.large_record)) >= total_backfilled

\* C10: plan order.  VALIDATE CONSTRAINT runs only after the migration that adds
\* both constraints NOT VALID is applied, and the backfill only after the
\* migration that adds created_at_new is applied.
PlanOrder ==
    /\ cur = P7Validate =>
          /\ P7AddFk \in applied
          /\ committed.fk["small_order"] # "absent"
          /\ committed.fk["large_order"] # "absent"
    /\ cur = P4Backfill => (P4AddColumn \in applied /\ committed.has_col)

PlanOrderWitness ==
    /\ cur = P7Validate
    /\ CurOp = "validate_large"
    /\ fk["small_order"] = "valid"

\* C11: reverse round trip.  When the fully applied plan is unapplied back to
\* 0001_initial and applied again, the database is the one the first apply
\* produced: every created_at_new filled, both foreign keys present and valid.
ReverseRoundTrip ==
    (status = "done" /\ unwound) =>
        /\ committed = first_apply
        /\ proj = "proj04" =>
              /\ committed.has_col
              /\ NullIds(committed.large_record) = {}
              /\ NullIds(committed.small_record) = {}
        /\ proj = "proj07" =>
              \A t \in {"small_order", "large_order"} : committed.fk[t] = "valid"

ReverseRoundTripWitness ==
    /\ status = "done"
    /\ unwound
    /\ run = 2
    /\ proj = "proj04"
    /\ Cardinality(DOMAIN committed.large_record) >= 2
    /\ batch_num >= 2

\* C12: every action over large_record is batched.  No statement of a forward
\* or reverse operation writes more than batch_size rows of large_record.
EveryStatementBatched ==
    [][(status \in {"running", "reverting"} /\ status' = status) =>
          Cardinality({id \in DOMAIN large_record :
                          large_record'[id] # large_record[id]}) <= batch_size]_vars

\* The operations C13 names: ADD CONSTRAINT ... NOT VALID, VALIDATE CONSTRAINT
\* and the backfill.
NamedOps == {"add_fk_small", "add_fk_large", "validate_small", "validate_large", "backfill"}

\* C13: every step is idempotent.  A forward operation that runs, without
\* being interrupted, on the database its plan had already completed on raises
\* nothing and leaves the schema and the data as they are.
StepsIdempotent ==
    [][(/\ status = "running"
        /\ first_apply # NULL
        /\ committed = first_apply
        /\ View = first_apply
        /\ CurOp \in NamedOps
        /\ status' # "interrupted")
       => (~err_seen' /\ View' = View)]_vars

\* C14: batch-size invariance.  When migrate completes with batch size b2 after
\* the loop was interrupted while running with another batch size b1, the
\* table is the one the loop produces when run from the start with one batch
\* size, whichever it is.
BatchSizeInvariance ==
    (proj = "proj04" /\ status = "done" /\ crash_sizes \ {batch_size} # {}) =>
        \A b \in 1..MaxBatch :
            committed.large_record = RunLoop(Unfilled(large_record), b)

BatchSizeInvarianceWitness ==
    /\ proj = "proj04"
    /\ status = "done"
    /\ crash_sizes \ {batch_size} # {}
    /\ \E k \in crash_at : k >= 1
    /\ Cardinality(DOMAIN committed.large_record) >= 3
    /\ batch_num >= 2

RECURSIVE SumTo(_, _)
SumTo(seq, i) == IF i = 0 THEN 0 ELSE SumTo(seq, i - 1) + seq[i]

\* C15: progress counters.  In a run of the backfill the total never decreases,
\* after every batch it is the sum of the rowcounts of the batches so far,
\* batch_num is the number of non-empty batches, and when the loop has ended
\* the total is the number of rows that had created_at_new NULL when it began.
ProgressCounters ==
    /\ batch_num = Len(rowcounts)
    /\ Len(totals) = Len(rowcounts)
    /\ \A i \in 1..Len(rowcounts) : rowcounts[i] > 0 /\ totals[i] = SumTo(rowcounts, i)
    /\ \A i \in 1..(Len(totals) - 1) : totals[i] <= totals[i + 1]
    /\ total_backfilled = SumTo(rowcounts, Len(rowcounts))
    /\ bpc \in {"report", "returned"} => total_backfilled = start_nulls

ProgressCountersWitness ==
    /\ status = "running"
    /\ bpc = "returned"
    /\ rowcounts = <<2, 1>>
    /\ totals = <<2, 3>>
    /\ start_nulls = 3

\* C16: batch selection.  Every batch of the loop writes at most batch_size
\* rows, every row it writes had created_at_new NULL just before it, and it
\* writes no row an earlier batch of the same run wrote.
BatchSelection ==
    [][(InLoop /\ status' = "running") =>
          LET written == locked' \ locked
          IN  /\ updated' <= batch_size
              /\ Cardinality(written) = updated'
              /\ \A id \in written :
                     /\ large_record[id].created_at_new = NULL
                     /\ large_record'[id].created_at_new # NULL
              /\ \A id \in DOMAIN large_record \ written :
                     large_record'[id] = large_record[id]]_vars

BatchSelectionWitness ==
    /\ InLoop
    /\ rowcounts = <<2, 1>>
    /\ batch_size = 2
    /\ Cardinality(locked) = 3
    /\ NullIds(large_record) = {}

\* C17: seeding.  When seed_large_table has finished, large_record holds
\* exactly large_count rows, one for each index 1..large_count and none else
\* (whatever the table held before, an earlier run's rows included), each with
\* its index's created_at; total_created is large_count; and every bulk insert
\* created between 1 and batch_size rows.
SeedCreatesExactly ==
    /\ \A k \in 1..Len(seed.bulks) : seed.bulks[k] >= 1 /\ seed.bulks[k] <= seed.batch_size
    /\ seed.total_created = SumTo(seed.bulks, Len(seed.bulks))
    /\ seed.pc = "done" =>
          /\ seed.total_created = seed.large_count
          /\ Cardinality(DOMAIN large_record) = seed.large_count
          /\ \A i \in 1..seed.large_count :
                 Cardinality({id \in DOMAIN large_record : large_record[id].name = i}) = 1
          /\ \A id \in DOMAIN large_record :
                 large_record[id] = Row(large_record[id].name, SeedCreatedAt(large_record[id].name))
          /\ committed.large_record = large_record

SeedCreatesExactlyWitness ==
    /\ seed.pc = "done"
    /\ seed.runs = 2
    /\ seed.large_count = 3
    /\ seed.batch_size = 2
    /\ seed.bulks = <<2, 1>>
    /\ seed.next_id > 4

\* C18: frame of the backfill.  A batch adds and removes no row, changes no
\* name and no created_at, and changes created_at_new only in rows where it
\* was NULL: a value already there, written by another connection included,
\* is never overwritten.
BackfillFrame ==
    [][(InLoop /\ status' = "running" /\ inserts' = inserts) =>
          /\ DOMAIN large_record' = DOMAIN large_record
          /\ \A id \in DOMAIN large_record :
                 /\ large_record'[id].name = large_record[id].name
                 /\ large_record'[id].created_at = large_record[id].created_at
                 /\ large_record[id].created_at_new # NULL =>
                        large_record'[id].created_at_new = large_record[id].created_at_new]_vars

Succeeded == {r \in 1..MaxRequests : requests[r].pc = "returned" /\ requests[r].success}

\* C19: update_order is an atomic increment.  When no request is between its
\* read and its save, the first order's total_amount is its initial value plus
\* 1.00 for every request that returned success.
AtomicIncrement ==
    (\A r \in 1..MaxRequests : requests[r].pc # "loaded") =>
        total_amount = initial_amount + Cardinality(Succeeded)

====
